---- MODULE Spec2Model ----
(***************************************************************************)
(* The cookbook scripts of lukecd/dflow-cookbook as state machines.        *)
(*                                                                         *)
(* Each script is one linear async program.  A state holds the position   *)
(* of the running script (pc), the values it has bound so far, the        *)
(* externally visible operations it has performed (steps), what it has    *)
(* written to the console, and how the process ended.  The remote         *)
(* services (trade API, chain RPC, the monitorOrder library) are the      *)
(* environment: their answers are drawn from small sets.                  *)
(***************************************************************************)
EXTENDS Integers, Sequences, FiniteSets, TLC

\* Longest fill list a monitor result carries.
MaxFills == 2
\* Most status observations the monitor makes before it settles or hangs.
MaxPolls == 3

\* A JavaScript undefined (an absent property, an unset environment variable).
Undefined == "<undefined>"

\* const ORDER_STATUS = { CLOSED, PENDING_CLOSE, OPEN_EXPIRED, OPEN_FAILED }
ORDER_STATUS == {"CLOSED", "PENDING_CLOSE", "OPEN_EXPIRED", "OPEN_FAILED"}

\* The scripts: the two versions of the declarative trade that the file
\* src/trading/declarative-trade.ts holds (lines 1-245 and 247-455).
DeclarativeScripts == {"declarative_v1", "declarative"}
\* src/trading/imperative-trade.ts
ImperativeScripts == {"imperative"}
\* src/prediction-markets/prediction-market-lifecycle.ts
LifecycleScripts == {"lifecycle"}
Scripts == DeclarativeScripts \cup ImperativeScripts \cup LifecycleScripts

\* const MIN_VOLUME = 1_000_000
MIN_VOLUME == 1000000
\* Number(process.env.DFLOW_MAX_TRADE_AMOUNT ?? "1000000")
MAX_TRADE_AMOUNT == 1000000
\* 1 contract, in the outcome token's smallest unit (6 decimals)
ONE_CONTRACT == 1000000
\* process.env.DFLOW_SETTLEMENT_MINT || DEFAULT_USDC_MINT
SETTLEMENT_MINT == "EPjFWdd5AufqSSqeM2qN1xzybapC8G4wEGGkZwyTDt1v"
\* Number(process.env.DFLOW_SLIPPAGE_BPS ?? "50") of the lifecycle, at its default
SLIPPAGE_BPS == 50
\* The mints of the trades.
SOL == "So11111111111111111111111111111111111111112"
USDC == "EPjFWdd5AufqSSqeM2qN1xzybapC8G4wEGGkZwyTDt1v"

---------------------------------------------------------------------------
(* Values the environment supplies *)

\* process.env.SOLANA_PRIVATE_KEY: unset, not parseable, or a usable key.
KeyEnvs == {"unset", "malformed", "valid"}

\* Response bodies as text: empty, text that is no JSON, or the text of a
\* JSON value.
EmptyBody == [kind |-> "text", text |-> ""]
TextBody(t) == [kind |-> "text", text |-> t]
JsonBody(v) == [kind |-> "json", text |-> "{...}", value |-> v]

JNull == [t |-> "null"]

\* Base64 transaction payloads: absent, empty, bytes that are no transaction,
\* and two transactions.
ValidTransactions == {"TX_A", "TX_B"}
TransactionFields == {Undefined, "", "not-a-transaction"} \cup ValidTransactions

\* 2xx bodies of GET /intent.
IntentValues ==
    {JNull} \cup
    {[t |-> "object", openTransaction |-> tx, lastValidBlockHeight |-> "h1"] :
        tx \in TransactionFields}

\* 2xx bodies of POST /submit-intent.
SubmitValues ==
    {JNull} \cup
    {[t |-> "object", orderAddress |-> a, programId |-> p] :
        a \in {Undefined, "order1"}, p \in {Undefined, "prog1"}}

\* A property of a JSON value: undefined when the object does not have it.
Get(o, f) == IF f \in DOMAIN o THEN o[f] ELSE Undefined

\* A JavaScript number: <<n>>, or <<>> for NaN.
Num(n) == <<n>>
NaN == <<>>

\* Number(s) of the strings the API and the environment supply.
NumberOf(s) ==
    CASE s = "0" -> Num(0)
      [] s = "" -> Num(0)
      [] s = "-5" -> Num(-5)
      [] s = "50" -> Num(50)
      [] s = "10001" -> Num(10001)
      [] s = "100000" -> Num(100000)
      [] s = "500000" -> Num(500000)
      [] s = "900000" -> Num(900000)
      [] s = "999999" -> Num(999999)
      [] s = "1000000" -> Num(1000000)
      [] s = "1000001" -> Num(1000001)
      [] s = "2000000" -> Num(2000000)
      [] OTHER -> NaN

\* 2xx bodies of GET /order.
OrderValues ==
    {JNull} \cup
    {[t |-> "object", transaction |-> tx, outAmount |-> out] :
        tx \in TransactionFields, out \in {Undefined, "1000000", "999999"}}

\* 2xx bodies of the probe GET /order of the market lifecycle.
EstimateValues ==
    {JNull} \cup
    {[t |-> "object", transaction |-> "TX_A", inAmount |-> a[1], outAmount |-> a[2]] :
        a \in {<<"1000000", "900000">>, <<"1000000", "2000000">>,
               <<Undefined, "1000000">>, <<"1000000", Undefined>>,
               <<"1000000", "0">>, <<"abc", "1000000">>,
               <<"500000", "900000">>, <<"1000000", "1000001">>}}

\* The configuration the imperative trade reads from process.env: each
\* variable is unset (Undefined) or a string.
ImperativeEnvs ==
    [DFLOW_INPUT_AMOUNT : {Undefined, "0", "-5", "abc"},
     DFLOW_SLIPPAGE_BPS : {Undefined, "10001", "abc"},
     DFLOW_INPUT_MINT : {Undefined, USDC},
     DFLOW_OUTPUT_MINT : {Undefined}]

\* No variable of the configuration is set.
DefaultEnv ==
    [DFLOW_INPUT_AMOUNT |-> Undefined, DFLOW_SLIPPAGE_BPS |-> Undefined,
     DFLOW_INPUT_MINT |-> Undefined, DFLOW_OUTPUT_MINT |-> Undefined]

\* const INPUT_MINT = process.env.DFLOW_INPUT_MINT || SOL
INPUT_MINT(e) ==
    IF e.DFLOW_INPUT_MINT \in {Undefined, ""} THEN SOL ELSE e.DFLOW_INPUT_MINT

\* const OUTPUT_MINT = process.env.DFLOW_OUTPUT_MINT || USDC
OUTPUT_MINT(e) ==
    IF e.DFLOW_OUTPUT_MINT \in {Undefined, ""} THEN USDC ELSE e.DFLOW_OUTPUT_MINT

\* const INPUT_AMOUNT = Number(process.env.DFLOW_INPUT_AMOUNT ?? "100000")
INPUT_AMOUNT(e) ==
    IF e.DFLOW_INPUT_AMOUNT = Undefined THEN Num(100000)
    ELSE NumberOf(e.DFLOW_INPUT_AMOUNT)

\* const SLIPPAGE_BPS = Number(process.env.DFLOW_SLIPPAGE_BPS ?? "50")
ImpSlippageBps(e) ==
    IF e.DFLOW_SLIPPAGE_BPS = Undefined THEN Num(50)
    ELSE NumberOf(e.DFLOW_SLIPPAGE_BPS)

\* The amount and the slippage the declarative trade asks with: version 1
\* 1 SOL and 1 bps, version 2 0.0001 SOL and 50 bps.
DeclAmount(s) == IF s = "declarative_v1" THEN 1000000000 ELSE 100000
DeclSlippageBps(s) == IF s = "declarative_v1" THEN 1 ELSE 50

\* Markets: Market = { ticker?, status?, volume?, accounts? }.  The volume is
\* <<v>> or <<>> when absent; accounts lists the entries of the record in
\* Object.values order.
Account(key, yes, no) == [key |-> key, yesMint |-> yes, noMint |-> no]
Market(ticker, status, volume, accounts) ==
    [ticker |-> ticker, status |-> status, volume |-> volume, accounts |-> accounts]

MarketHigh ==
    Market("HIGH", "active", <<1500000>>,
           <<Account("otherMint", "yesOther", "noOther"),
             Account(SETTLEMENT_MINT, "yesHigh", "noHigh")>>)
MarketLow ==
    Market("LOW", "active", <<500000>>, <<Account("otherMint", "yesLow", Undefined)>>)
MarketTie ==
    Market("TIE", "active", <<1500000>>, <<>>)
MarketClosed ==
    Market("DONE", "finalized", <<2000000>>,
           <<Account(SETTLEMENT_MINT, "yesDone", "noDone")>>)
MarketEdge ==
    Market("EDGE", "active", <<1000000>>, <<Account(SETTLEMENT_MINT, "yesEdge", "noEdge")>>)
MarketNoVolume ==
    Market("NOVOL", "active", <<>>, <<Account(SETTLEMENT_MINT, "yesNo", "noNo")>>)

MarketPartial ==
    Market("PART", "active", <<3000000>>,
           <<Account("otherMint", "yesOtherPart", "noOtherPart"),
             Account(SETTLEMENT_MINT, "yesPart", Undefined)>>)
MarketZero ==
    Market("ZERO", "active", <<0>>, <<Account(SETTLEMENT_MINT, "yesZero", "noZero")>>)

Event(ticker, markets) == [ticker |-> ticker, markets |-> markets]

\* Event lists the metadata API answers with.
EventLists ==
    { <<>>,
      <<Event("E1", <<MarketLow, MarketHigh>>)>>,
      <<Event("E1", <<MarketHigh, MarketTie>>)>>,
      <<Event("E1", <<MarketTie, MarketHigh>>)>>,
      <<Event("E1", <<MarketEdge, MarketNoVolume>>), Event("E2", <<MarketLow>>)>>,
      <<Event("E1", <<MarketLow>>), Event("E2", <<MarketClosed>>)>>,
      <<Event("E1", <<MarketLow, MarketClosed>>), Event("E2", <<MarketHigh>>)>>,
      <<Event("E1", <<>>), Event("E2", <<MarketClosed, MarketLow>>)>>,
      <<Event("E1", <<MarketPartial>>)>> }

\* The market lists of one event that market selection is examined on: every
\* list of at most MaxMarkets of these markets.
MaxMarkets == 3
MarketValues ==
    {MarketHigh, MarketTie, MarketLow, MarketClosed, MarketEdge, MarketNoVolume,
     MarketZero}
MarketLists == UNION {[1..k -> MarketValues] : k \in 0..MaxMarkets}

\* 2xx bodies of GET /events.
EventsValues ==
    {JNull, [t |-> "object"]} \cup
    {[t |-> "object", events |-> es] : es \in EventLists}

\* Orderbook sides: the price keys of yes_bids / no_bids, and what Number
\* makes of each key (prices in cents).
PriceOf(key) ==
    CASE key = "0.41" -> Num(41)
      [] key = "0.62" -> Num(62)
      [] key = "0" -> Num(0)
      [] OTHER -> NaN

\* 2xx bodies of GET /orderbook/{ticker}.
OrderbookValues ==
    {JNull, [t |-> "object"]} \cup
    {[t |-> "object", yes_bids |-> y, no_bids |-> n] :
        y \in {{}, {"0.41"}, {"0.62"}, {"0.41", "0.62"}, {"abc", "0"}},
        n \in {{}, {"0.41"}, {"0.62"}, {"0.41", "0.62"}}}

\* What sendRawTransaction resolves with, and what confirmTransaction
\* resolves with: value.err is null or the error of the transaction.
Signatures == {"sig1"}
Confirmations == {"err:null", "err:InstructionError"}
RpcErrors == {"SendTransactionError", "TransactionExpiredTimeoutError"}

\* Bodies of non-2xx answers.
ErrorBodies ==
    {EmptyBody, TextBody("Zero out amount"), TextBody("Service Unavailable"),
     JsonBody([t |-> "object", code |-> "route_not_found", msg |-> "no route"]),
     JsonBody([t |-> "object", code |-> "zero_out_amount", msg |-> "zero out"]),
     JsonBody([t |-> "object", msg |-> "bad request"])}

\* What fetch() settles with: a rejection (transport failure) or a response.
FetchReject == [type |-> "reject"]
HttpResponse(ok, body) == [type |-> "response", ok |-> ok, body |-> body]

Responses(values) ==
    {FetchReject}
    \cup {HttpResponse(FALSE, b) : b \in ErrorBodies}
    \cup {HttpResponse(TRUE, b) : b \in {EmptyBody, TextBody("<html>")}}
    \cup {HttpResponse(TRUE, JsonBody(v)) : v \in values}

\* interface Fill { qtyIn: bigint; qtyOut: bigint }
FillValues == {[qtyIn |-> 3, qtyOut |-> 7], [qtyIn |-> 2, qtyOut |-> 5]}

SeqsUpTo(S, n) == UNION {[1..k -> S] : k \in 0..n}

FillLists == SeqsUpTo(FillValues, MaxFills)

\* MonitorOrderResult.transactionError?: string
TransactionErrors == {Undefined, "InstructionError"}

\* What a rejected monitorOrder promise carries.
MonitorErrors == {"MonitorTimeout", "RpcError"}

---------------------------------------------------------------------------
VARIABLES
    script,            \* the script that runs
    keyEnv,            \* process.env.SOLANA_PRIVATE_KEY
    processEnv,        \* the rest of process.env the script reads
    pc,                \* position of main
    steps,             \* operations performed so far, in order
    intentData,        \* parsed body of GET /intent
    signedTx,          \* the signed open transaction
    submitBody,        \* body of POST /submit-intent
    submitIntentData,  \* parsed body of the submit answer
    observed,          \* statuses the monitor has observed on chain
    result,            \* what monitorOrder resolved with
    console,           \* the console lines that report an outcome or an error,
                       \* in order (the progress lines are left out)
    thrown,            \* the error main rejected with
    exitCode,          \* process exit code, or "running"
    received,          \* what each fetch of the script settled with, in order
    order,             \* parsed body of the last GET /order
    signature,         \* what sendRawTransaction resolved with
    confirmation,      \* what confirmTransaction resolved with
    events,            \* what getEvents returned
    topMarket,         \* the market the lifecycle trades
    orderbook,         \* what getOrderbookForMaket returned
    outputMint,        \* the outcome mint the lifecycle buys
    estimate,          \* what the probe fetchOrder returned
    scaledAmount,      \* the amount of the buy order
    phase,             \* lifecycle: "scan", "buy" or "sell"
    requests           \* the GET /intent and GET /order requests issued, in order

\* What the market lifecycle uses, and the requests of every script.
lifeVars == <<events, topMarket, orderbook, outputMint, estimate, scaledAmount,
              phase, requests>>

\* What only the imperative trade and the market lifecycle use.
tradeVars == <<order, signature, confirmation, lifeVars>>

vars == <<script, keyEnv, processEnv, pc, steps, intentData, signedTx, submitBody,
          submitIntentData, observed, result, console, thrown, exitCode,
          received, tradeVars>>

\* A thrown value: the error class and the parts of its message.
Error(kind, detail) == [kind |-> kind, detail |-> detail]
NoError == Error("none", <<>>)

\* A Transaction object: the message it carries and whether it is signed.
NoTx == [message |-> Undefined, signed |-> FALSE]
NoResult == [status |-> "none", fills |-> <<>>, transactionError |-> Undefined]
NoBody == [quoteResponse |-> JNull, signedOpenTransaction |-> NoTx]

\* The outcome of a call that may throw.
Ok(v) == [ok |-> TRUE, value |-> v, error |-> NoError]
Err(e) == [ok |-> FALSE, value |-> JNull, error |-> e]

\* A console line: the stream, the text (a template with its numbers), and
\* the further arguments of the call.
Line(stream, text, nums, extra) ==
    [stream |-> stream, text |-> text, nums |-> nums, extra |-> extra]

\* The query of one GET /intent or GET /order.
OrderRequest(kind, inputMint, outMint, amount, slippageBps) ==
    [kind |-> kind, inputMint |-> inputMint, outputMint |-> outMint, amount |-> amount,
     slippageBps |-> slippageBps]

\* JSON.parse(text): the value, or a SyntaxError on the empty string and on
\* text that is no JSON.
JSONparse(body) ==
    IF body.kind = "json"
    THEN Ok(body.value)
    ELSE Err(Error("SyntaxError", <<"JSON.parse", body.text>>))

Init ==
    /\ script \in Scripts
    /\ keyEnv \in KeyEnvs
    /\ processEnv \in (IF script \in ImperativeScripts THEN ImperativeEnvs ELSE {DefaultEnv})
    /\ pc = "start"
    /\ steps = <<>>
    /\ intentData = JNull
    /\ signedTx = NoTx
    /\ submitBody = NoBody
    /\ submitIntentData = JNull
    /\ observed = <<>>
    /\ result = NoResult
    /\ console = <<>>
    /\ thrown = NoError
    /\ exitCode = "running"
    /\ received = <<>>
    /\ order = JNull
    /\ signature = Undefined
    /\ confirmation = Undefined
    /\ events = <<>>
    /\ topMarket = JNull
    /\ orderbook = JNull
    /\ outputMint = Undefined
    /\ estimate = JNull
    /\ scaledAmount = NaN
    /\ phase = "scan"
    /\ requests = <<>>

---------------------------------------------------------------------------
(* Helpers of src/trading/declarative-trade.ts *)

\* A faulty parseJsonOrThrow: an empty body is answered with null.
parseJsonOrThrowDefaultsEmpty(body, label) ==
    IF body.text = ""
    THEN Ok(JNull)
    ELSE IF JSONparse(body).ok
         THEN JSONparse(body)
         ELSE Err(Error("Error", <<label, "failed to parse JSON">>))

\* async function parseJsonOrThrow(response, label)
parseJsonOrThrow(body, label) ==
    IF body.text = ""
    THEN Err(Error("Error", <<label, "empty response body">>))
    ELSE IF JSONparse(body).ok
         THEN JSONparse(body)
         ELSE Err(Error("Error", <<label, "failed to parse JSON">>))

\* A faulty getKeypair: a key that cannot be parsed is replaced by a fresh one.
getKeypairGeneratesOnFailure(env) ==
    IF env = "unset"
    THEN Err(Error("Error", <<"SOLANA_PRIVATE_KEY environment variable is required">>))
    ELSE Ok(JNull)

\* function getKeypair(): throws when the variable is unset or unparseable.
getKeypair(env) ==
    CASE env = "unset" ->
           Err(Error("Error", <<"SOLANA_PRIVATE_KEY environment variable is required">>))
      [] env = "malformed" ->
           Err(Error("Error", <<"Failed to parse private key">>))
      [] OTHER -> Ok(JNull)

\* The key main signs with: version 1 generates one (Keypair.generate()),
\* version 2 reads it from the environment.
LoadKey(s, env) ==
    IF s = "declarative_v1" THEN Ok(JNull) ELSE getKeypair(env)

\* The answer of GET /intent as main binds it: version 1 is requestQuote
\* (response.json()), version 2 inlines the fetch and parseJsonOrThrow.
FetchIntent(s, r) ==
    IF r.type = "reject"
    THEN Err(Error("TypeError", <<"fetch failed">>))
    ELSE IF ~r.ok
    THEN Err(Error("Error",
                   <<IF s = "declarative_v1" THEN "Failed to request quote"
                     ELSE "Failed to request intent", r.body.text>>))
    ELSE IF s = "declarative_v1"
    THEN JSONparse(r.body)
    ELSE parseJsonOrThrow(r.body, "intent response")

\* signIntent / lines 378-381: decode openTransaction from base64, build the
\* Transaction and sign it.  Reading a property of null, Buffer.from of
\* undefined and Transaction.from of bytes that are no transaction throw.
signIntent(intent) ==
    IF intent.t = "null"
    THEN Err(Error("TypeError", <<"Cannot read properties of null">>))
    ELSE IF intent.openTransaction = Undefined
    THEN Err(Error("TypeError", <<"The first argument must be of type string">>))
    ELSE IF intent.openTransaction \notin ValidTransactions
    THEN Err(Error("Error", <<"Transaction.from">>))
    ELSE Ok([message |-> intent.openTransaction, signed |-> TRUE])

\* A faulty SubmitRequestBody: the quote is sent with its openTransaction
\* replaced by the signed one.
SubmitRequestBodySignedInPlace(intent, openTransaction) ==
    [quoteResponse |-> [intent EXCEPT !.openTransaction = "SIGNED"],
     signedOpenTransaction |-> openTransaction]

\* JSON body of POST /submit-intent.
SubmitRequestBody(intent, openTransaction) ==
    [quoteResponse |-> intent, signedOpenTransaction |-> openTransaction]

\* The answer of POST /submit-intent as main binds it.
FetchSubmit(s, r) ==
    IF r.type = "reject"
    THEN Err(Error("TypeError", <<"fetch failed">>))
    ELSE IF ~r.ok
    THEN Err(Error("Error", <<"Failed to submit intent", r.body.text>>))
    ELSE IF s = "declarative_v1"
    THEN JSONparse(r.body)
    ELSE parseJsonOrThrow(r.body, "submit intent response")

\* if (!submitIntentData?.orderAddress || !submitIntentData?.programId)
\* (version 2 only; version 1 calls the monitor with whatever came back).
MissingOrderIdentity(s, data) ==
    /\ s = "declarative"
    /\ \/ data.t = "null"
       \/ data.orderAddress = Undefined
       \/ data.programId = Undefined

\* A faulty reduceQtyIn: the callback drops the accumulator, (acc, x) => x.qtyIn.
reduceQtyInDropsAcc(fills) ==
    IF fills = <<>> THEN 0 ELSE fills[Len(fills)].qtyIn

\* result.fills.reduce((acc, x) => acc + x.qtyIn, 0n)
RECURSIVE reduceQtyIn(_)
reduceQtyIn(fills) ==
    IF fills = <<>> THEN 0
    ELSE reduceQtyIn(SubSeq(fills, 1, Len(fills) - 1)) + fills[Len(fills)].qtyIn

\* A faulty reduceQtyOut: the copied reduction still adds up qtyIn.
reduceQtyOutAddsQtyIn(fills) == reduceQtyIn(fills)

\* result.fills.reduce((acc, x) => acc + x.qtyOut, 0n)
RECURSIVE reduceQtyOut(_)
reduceQtyOut(fills) ==
    IF fills = <<>> THEN 0
    ELSE reduceQtyOut(SubSeq(fills, 1, Len(fills) - 1)) + fills[Len(fills)].qtyOut

\* A faulty FilledLines: without fills it prints the transaction error, as
\* `case OPEN_FAILED` does.
FilledLinesWithError(res) ==
    IF Len(res.fills) > 0
    THEN <<Line("stdout", "Order succeeded: sent {}, received {}",
                <<reduceQtyIn(res.fills), reduceQtyOut(res.fills)>>, <<>>)>>
    ELSE <<Line("stdout", "Order failed", <<>>, <<res.transactionError>>)>>

\* The body shared by `case CLOSED` and `case PENDING_CLOSE`.
FilledLines(res) ==
    IF Len(res.fills) > 0
    THEN <<Line("stdout", "Order succeeded: sent {}, received {}",
                <<reduceQtyIn(res.fills), reduceQtyOut(res.fills)>>, <<>>)>>
    ELSE <<Line("stdout", "Order failed", <<>>, <<>>)>>

\* A faulty Classify: the switch has no `case OPEN_EXPIRED`.
ClassifyWithoutExpired(res) ==
    CASE res.status = "CLOSED" -> FilledLines(res)
      [] res.status = "PENDING_CLOSE" -> FilledLines(res)
      [] res.status = "OPEN_FAILED" ->
           <<Line("stdout", "Order failed", <<>>, <<res.transactionError>>)>>
      [] OTHER -> <<>>

\* switch (result.status) { ... }: the lines the classification prints.
Classify(res) ==
    CASE res.status = "CLOSED" -> FilledLines(res)
      [] res.status = "PENDING_CLOSE" -> FilledLines(res)
      [] res.status = "OPEN_EXPIRED" ->
           <<Line("stdout",
                  "Transaction expired. Try again with a higher slippage tolerance.",
                  <<>>, <<>>)>>
      [] res.status = "OPEN_FAILED" ->
           <<Line("stdout", "Order failed", <<>>, <<res.transactionError>>)>>
      [] OTHER -> <<>>

\* A faulty CatchLines: the error is reported in the words of a failed order.
CatchLinesAsOrderFailed(e) == <<Line("stdout", "Order failed", <<>>, <<e.kind>>)>>

\* main().catch((error) => { console.error("Error:", error); process.exit(1) })
CatchLines(e) == <<Line("stderr", "Error:", <<>>, <<e.kind>> \o e.detail)>>

---------------------------------------------------------------------------
(* main of the declarative trade, one action per stretch between awaits *)

\* main rejects with e: nothing else changes until the catch handler runs.
Throw(e) ==
    /\ thrown' = e
    /\ pc' = "rejected"

\* const keypair = getKeypair() / Keypair.generate()
DeclLoadKeypair ==
    /\ script \in DeclarativeScripts
    /\ pc = "start"
    /\ IF LoadKey(script, keyEnv).ok
       THEN pc' = "requestQuote" /\ UNCHANGED thrown
       ELSE Throw(LoadKey(script, keyEnv).error)
    /\ UNCHANGED <<processEnv, received, tradeVars, script, keyEnv, steps, intentData, signedTx, submitBody,
                   submitIntentData, observed, result, console, exitCode>>

\* fetch(`${TRADE_API_BASE_URL}/intent?...`): the request leaves.
DeclRequestQuote ==
    /\ script \in DeclarativeScripts
    /\ pc = "requestQuote"
    /\ requests' = Append(requests,
           OrderRequest("intent", SOL, USDC, Num(DeclAmount(script)),
                        Num(DeclSlippageBps(script))))
    /\ steps' = Append(steps, "quoteRequest")
    /\ pc' = "awaitQuote"
    /\ UNCHANGED <<processEnv, received, order, signature, confirmation, events, topMarket,
                   orderbook, outputMint, estimate, scaledAmount, phase,
                   script, keyEnv, intentData, signedTx, submitBody,
                   submitIntentData, observed, result, console, thrown, exitCode>>

\* The fetch settles with r; main checks and parses the answer.
DeclQuoteResponse(r) ==
    /\ script \in DeclarativeScripts
    /\ pc = "awaitQuote"
    /\ IF FetchIntent(script, r).ok
       THEN /\ intentData' = FetchIntent(script, r).value
            /\ steps' = Append(steps, "quoteOk")
            /\ pc' = "sign"
            /\ UNCHANGED thrown
       ELSE /\ Throw(FetchIntent(script, r).error)
            /\ UNCHANGED <<intentData, steps>>
    /\ received' = Append(received, [call |-> "intent", response |-> r])
    /\ UNCHANGED <<processEnv, tradeVars, script, keyEnv, signedTx, submitBody, submitIntentData,
                   observed, result, console, exitCode>>

\* Transaction.from(...); openTransaction.sign(keypair)
DeclSign ==
    /\ script \in DeclarativeScripts
    /\ pc = "sign"
    /\ IF signIntent(intentData).ok
       THEN /\ signedTx' = signIntent(intentData).value
            /\ steps' = Append(steps, "sign")
            /\ pc' = "submit"
            /\ UNCHANGED thrown
       ELSE /\ Throw(signIntent(intentData).error)
            /\ UNCHANGED <<signedTx, steps>>
    /\ UNCHANGED <<processEnv, received, tradeVars, script, keyEnv, intentData, submitBody, submitIntentData,
                   observed, result, console, exitCode>>

\* fetch(`${TRADE_API_BASE_URL}/submit-intent`, { method: "POST", body })
DeclSubmit ==
    /\ script \in DeclarativeScripts
    /\ pc = "submit"
    /\ submitBody' = SubmitRequestBody(intentData, signedTx)
    /\ steps' = Append(steps, "submitRequest")
    /\ pc' = "awaitSubmit"
    /\ UNCHANGED <<processEnv, received, tradeVars, script, keyEnv, intentData, signedTx, submitIntentData,
                   observed, result, console, thrown, exitCode>>

\* A faulty DeclSubmitResponse: it does not look at response.ok or at the
\* parse, and goes on to the monitor whatever the POST settled with.
DeclSubmitResponseUnchecked(r) ==
    /\ script \in DeclarativeScripts
    /\ pc = "awaitSubmit"
    /\ submitIntentData' = FetchSubmit(script, r).value
    /\ steps' = IF FetchSubmit(script, r).ok THEN Append(steps, "submitOk") ELSE steps
    /\ pc' = "monitor"
    /\ received' = Append(received, [call |-> "submit", response |-> r])
    /\ UNCHANGED <<processEnv, tradeVars, script, keyEnv, intentData, signedTx, submitBody,
                   observed, result, console, thrown, exitCode>>

\* The POST settles with r; main checks and parses the answer, and version 2
\* returns when the answer does not identify the order.
DeclSubmitResponse(r) ==
    /\ script \in DeclarativeScripts
    /\ pc = "awaitSubmit"
    /\ IF FetchSubmit(script, r).ok
       THEN /\ submitIntentData' = FetchSubmit(script, r).value
            /\ steps' = Append(steps, "submitOk")
            /\ IF MissingOrderIdentity(script, FetchSubmit(script, r).value)
               THEN /\ console' = Append(console,
                           Line("stderr", "submitIntentData missing orderAddress/programId:",
                                <<>>, <<>>))
                    /\ pc' = "exited"
                    /\ exitCode' = 0
               ELSE /\ pc' = "monitor"
                    /\ UNCHANGED <<console, exitCode>>
            /\ UNCHANGED thrown
       ELSE /\ Throw(FetchSubmit(script, r).error)
            /\ UNCHANGED <<submitIntentData, steps, console, exitCode>>
    /\ received' = Append(received, [call |-> "submit", response |-> r])
    /\ UNCHANGED <<processEnv, tradeVars, script, keyEnv, intentData, signedTx, submitBody,
                   observed, result>>

\* A faulty DeclCallMonitor: the call is not awaited, so main classifies the
\* result before the monitor has returned one.
DeclCallMonitorNoAwait ==
    /\ script \in DeclarativeScripts
    /\ pc = "monitor"
    /\ steps' = Append(steps, "monitorCall")
    /\ pc' = "classify"
    /\ UNCHANGED <<processEnv, received, tradeVars, script, keyEnv, intentData, signedTx, submitBody,
                   submitIntentData, observed, result, console, thrown, exitCode>>

\* monitorOrder({ connection, intent, signedOpenTransaction, submitIntentResponse })
DeclCallMonitor ==
    /\ script \in DeclarativeScripts
    /\ pc = "monitor"
    /\ steps' = Append(steps, "monitorCall")
    /\ pc' = "awaitMonitor"
    /\ UNCHANGED <<processEnv, received, tradeVars, script, keyEnv, intentData, signedTx, submitBody,
                   submitIntentData, observed, result, console, thrown, exitCode>>

\* The monitor library observes status st of the order on chain.  It looks
\* again only while the order is pending.
MonitorObserve(st) ==
    /\ pc = "awaitMonitor"
    /\ Len(observed) < MaxPolls
    /\ IF observed = <<>> THEN TRUE ELSE observed[Len(observed)] = "PENDING_CLOSE"
    /\ observed' = Append(observed, st)
    /\ UNCHANGED <<processEnv, received, tradeVars, script, keyEnv, pc, steps, intentData, signedTx, submitBody,
                   submitIntentData, result, console, thrown, exitCode>>

\* const result = await monitorOrder(...): the promise resolves with the
\* status last observed, the fills and the transaction error.
MonitorResolve(fills, terr) ==
    /\ pc = "awaitMonitor"
    /\ observed # <<>>
    /\ result' = [status |-> observed[Len(observed)], fills |-> fills,
                  transactionError |-> terr]
    /\ steps' = Append(steps, "monitorReturn")
    /\ pc' = "classify"
    /\ UNCHANGED <<processEnv, received, tradeVars, script, keyEnv, intentData, signedTx, submitBody,
                   submitIntentData, observed, console, thrown, exitCode>>

\* The promise rejects: the await throws out of main.
MonitorReject(e) ==
    /\ pc = "awaitMonitor"
    /\ Throw(Error(e, <<>>))
    /\ UNCHANGED <<processEnv, received, tradeVars, script, keyEnv, steps, intentData, signedTx, submitBody,
                   submitIntentData, observed, result, console, exitCode>>

\* switch (result.status) { ... } and the end of main.
DeclClassify ==
    /\ script \in DeclarativeScripts
    /\ pc = "classify"
    /\ console' = console \o Classify(result)
    /\ pc' = "exited"
    /\ exitCode' = 0
    /\ UNCHANGED <<processEnv, received, tradeVars, script, keyEnv, steps, intentData, signedTx, submitBody,
                   submitIntentData, observed, result, thrown>>

\* main().catch((error) => { console.error("Error:", error); process.exit(1); })
MainCatch ==
    /\ script \notin LifecycleScripts
    /\ pc = "rejected"
    /\ console' = console \o CatchLines(thrown)
    /\ pc' = "exited"
    /\ exitCode' = 1
    /\ UNCHANGED <<processEnv, received, tradeVars, script, keyEnv, steps, intentData, signedTx, submitBody,
                   submitIntentData, observed, result, thrown>>

---------------------------------------------------------------------------
(* src/trading/imperative-trade.ts *)

\* async function fetchOrder(params): the answer of GET /order as main binds it.
fetchOrder(r) ==
    IF r.type = "reject"
    THEN Err(Error("TypeError", <<"fetch failed">>))
    ELSE IF ~r.ok
    THEN Err(Error("Error", <<"Failed to fetch order", r.body.text>>))
    ELSE JSONparse(r.body)

\* A faulty signOrder: whatever the order carries as its transaction is
\* signed, an absent or empty one included.
signOrderUnchecked(o) ==
    IF o.t = "null"
    THEN Ok([message |-> Undefined, signed |-> TRUE])
    ELSE Ok([message |-> o.transaction, signed |-> TRUE])

\* Buffer.from(order.transaction, "base64"); VersionedTransaction.deserialize;
\* tx.sign([keypair])
signOrder(o) ==
    IF o.t = "null"
    THEN Err(Error("TypeError", <<"Cannot read properties of null">>))
    ELSE IF o.transaction = Undefined
    THEN Err(Error("TypeError", <<"The first argument must be of type string">>))
    ELSE IF o.transaction \notin ValidTransactions
    THEN Err(Error("Error", <<"VersionedTransaction.deserialize">>))
    ELSE Ok([message |-> o.transaction, signed |-> TRUE])

\* const keypair = getKeypair()
ImpLoadKeypair ==
    /\ script \in ImperativeScripts
    /\ pc = "start"
    /\ IF getKeypair(keyEnv).ok
       THEN pc' = "fetchOrder" /\ UNCHANGED thrown
       ELSE Throw(getKeypair(keyEnv).error)
    /\ UNCHANGED <<processEnv, received, tradeVars, script, keyEnv, steps, intentData, signedTx, submitBody,
                   submitIntentData, observed, result, console, exitCode>>

\* const response = await fetch(url, { headers }): the request leaves.
ImpRequestOrder ==
    /\ script \in ImperativeScripts
    /\ pc = "fetchOrder"
    /\ requests' = Append(requests,
           OrderRequest("order", INPUT_MINT(processEnv), OUTPUT_MINT(processEnv),
                        INPUT_AMOUNT(processEnv), ImpSlippageBps(processEnv)))
    /\ steps' = Append(steps, "orderRequest")
    /\ pc' = "awaitOrder"
    /\ UNCHANGED <<processEnv, received, order, signature, confirmation, events, topMarket,
                   orderbook, outputMint, estimate, scaledAmount, phase,
                   script, keyEnv, intentData, signedTx, submitBody,
                   submitIntentData, observed, result, console, thrown, exitCode>>

\* The fetch settles with r; fetchOrder returns the parsed body or throws.
ImpOrderResponse(r) ==
    /\ script \in ImperativeScripts
    /\ pc = "awaitOrder"
    /\ IF fetchOrder(r).ok
       THEN /\ order' = fetchOrder(r).value
            /\ steps' = Append(steps, "orderOk")
            /\ pc' = "sign"
            /\ UNCHANGED thrown
       ELSE /\ Throw(fetchOrder(r).error)
            /\ UNCHANGED <<order, steps>>
    /\ received' = Append(received, [call |-> "order", response |-> r])
    /\ UNCHANGED <<processEnv, lifeVars, signature, confirmation, script, keyEnv, intentData, signedTx,
                   submitBody, submitIntentData, observed, result, console, exitCode>>

\* VersionedTransaction.deserialize(...); tx.sign([keypair])
ImpSign ==
    /\ script \in ImperativeScripts
    /\ pc = "sign"
    /\ IF signOrder(order).ok
       THEN /\ signedTx' = signOrder(order).value
            /\ steps' = Append(steps, "sign")
            /\ pc' = "send"
            /\ UNCHANGED thrown
       ELSE /\ Throw(signOrder(order).error)
            /\ UNCHANGED <<signedTx, steps>>
    /\ UNCHANGED <<processEnv, received, tradeVars, script, keyEnv, intentData, submitBody,
                   submitIntentData, observed, result, console, exitCode>>

---------------------------------------------------------------------------
(* async function sendTransaction(connection, tx) *)

\* connection.sendRawTransaction(tx.serialize(), { skipPreflight: false })
SendRaw ==
    /\ pc = "send"
    /\ steps' = Append(steps, "send")
    /\ pc' = "awaitSend"
    /\ UNCHANGED <<processEnv, received, tradeVars, script, keyEnv, intentData, signedTx, submitBody,
                   submitIntentData, observed, result, console, thrown, exitCode>>

\* The broadcast resolves with a signature; the script prints it and asks
\* for the confirmation.
SendResolve(sig) ==
    /\ pc = "awaitSend"
    /\ signature' = sig
    /\ steps' = Append(steps, "sent")
    /\ console' = Append(console, Line("stdout", "Transaction sent: {}", <<>>, <<sig>>))
    /\ pc' = "awaitConfirm"
    /\ UNCHANGED <<processEnv, received, lifeVars, order, confirmation, script, keyEnv, intentData, signedTx,
                   submitBody, submitIntentData, observed, result, thrown, exitCode>>

\* A faulty SendReject: the rejection is caught and the broadcast attempted
\* again.
SendRejectRetries(e) ==
    /\ pc = "awaitSend"
    /\ pc' = "send"
    /\ UNCHANGED <<processEnv, received, tradeVars, script, keyEnv, steps, intentData, signedTx, submitBody,
                   submitIntentData, observed, result, console, thrown, exitCode>>

\* The broadcast rejects (the preflight fails, the RPC is unreachable).
SendReject(e) ==
    /\ pc = "awaitSend"
    /\ Throw(Error(e, <<>>))
    /\ UNCHANGED <<processEnv, received, tradeVars, script, keyEnv, steps, intentData, signedTx, submitBody,
                   submitIntentData, observed, result, console, exitCode>>

\* A faulty continuation: the lifecycle sells after every confirmation, the
\* one of its own sell included.
AfterSendSellsAgain(s, ph, mint) ==
    IF s \in LifecycleScripts /\ mint \notin {Undefined, ""}
    THEN "sell" ELSE "exited"

\* Where the caller of sendTransaction goes on: the lifecycle sells what it
\* bought (if (outcomeMint) await sellOutcomeToken(...)), the others return.
AfterSend(s, ph, mint) ==
    IF s \in LifecycleScripts /\ ph = "buy" /\ mint \notin {Undefined, ""}
    THEN "sell" ELSE "exited"

\* await connection.confirmTransaction(signature, "confirmed") resolves with
\* c; the script does not read it and prints "Transaction confirmed".
ConfirmResolve(c) ==
    /\ pc = "awaitConfirm"
    /\ confirmation' = c
    /\ steps' = Append(steps, "confirmed")
    /\ console' = Append(console, Line("stdout", "Transaction confirmed", <<>>, <<>>))
    /\ pc' = AfterSend(script, phase, outputMint)
    /\ exitCode' = IF AfterSend(script, phase, outputMint) = "exited" THEN 0 ELSE exitCode
    /\ UNCHANGED <<processEnv, received, lifeVars, order, signature, script, keyEnv, intentData, signedTx,
                   submitBody, submitIntentData, observed, result, thrown>>

\* The confirmation rejects (the transaction expired unconfirmed).
ConfirmReject(e) ==
    /\ pc = "awaitConfirm"
    /\ Throw(Error(e, <<>>))
    /\ UNCHANGED <<processEnv, received, tradeVars, script, keyEnv, steps, intentData, signedTx, submitBody,
                   submitIntentData, observed, result, console, exitCode>>

---------------------------------------------------------------------------
(* src/prediction-markets/prediction-market-lifecycle.ts *)

\* async function getEvents(): a failed request and an empty body are logged
\* and answered with []; a body that is no JSON throws out of JSON.parse.
getEvents(r) ==
    IF r.type = "reject"
    THEN Err(Error("TypeError", <<"fetch failed">>))
    ELSE IF ~r.ok THEN Ok(<<>>)
    ELSE IF r.body.text = "" THEN Ok(<<>>)
    ELSE IF ~JSONparse(r.body).ok THEN JSONparse(r.body)
    ELSE IF JSONparse(r.body).value.t = "null"
    THEN Err(Error("TypeError", <<"Cannot read properties of null">>))
    ELSE IF "events" \in DOMAIN JSONparse(r.body).value
    THEN Ok(JSONparse(r.body).value.events)
    ELSE Ok(<<>>)

\* What getEvents writes with console.error.
getEventsLines(r) ==
    IF r.type = "reject" THEN <<>>
    ELSE IF ~r.ok
    THEN <<Line("stderr", "Events request failed: {}", <<>>, <<r.body.text>>)>>
    ELSE IF r.body.text = ""
    THEN <<Line("stderr", "Events request returned an empty body.", <<>>, <<>>)>>
    ELSE <<>>

\* async function getOrderbookForMaket(market): null for a failed request and
\* for an empty body.
getOrderbookForMaket(r) ==
    IF r.type = "reject"
    THEN Err(Error("TypeError", <<"fetch failed">>))
    ELSE IF ~r.ok THEN Ok(JNull)
    ELSE IF r.body.text = "" THEN Ok(JNull)
    ELSE JSONparse(r.body)

\* What getOrderbookForMaket writes with console.error.
getOrderbookLines(r) ==
    IF r.type = "reject" THEN <<>>
    ELSE IF ~r.ok
    THEN <<Line("stderr", "Orderbook request failed: {}", <<>>, <<r.body.text>>)>>
    ELSE IF r.body.text = ""
    THEN <<Line("stderr", "Orderbook request returned an empty body.", <<>>, <<>>)>>
    ELSE <<>>

\* Number(market.volume ?? 0)
VolumeOf(m) == IF m.volume = <<>> THEN 0 ELSE m.volume[1]

\* The nested loops of main: the places <<event, market>> of the markets
\* with volume > MIN_VOLUME, and the first of them in scan order.
HighVolumePlaces(es) ==
    {<<i, j>> \in UNION {{i} \X DOMAIN es[i].markets : i \in DOMAIN es} :
        VolumeOf(es[i].markets[j]) > MIN_VOLUME}

\* A faulty scan: it goes on to the last market with volume > MIN_VOLUME.
LastHighVolume(es) ==
    CHOOSE p \in HighVolumePlaces(es) :
        \A q \in HighVolumePlaces(es) :
            q[1] < p[1] \/ (q[1] = p[1] /\ q[2] <= p[2])

FirstHighVolume(es) ==
    CHOOSE p \in HighVolumePlaces(es) :
        \A q \in HighVolumePlaces(es) :
            p[1] < q[1] \/ (p[1] = q[1] /\ p[2] <= q[2])

\* A faulty reduce: on equal volumes the later market replaces the earlier.
RECURSIVE reduceTopMarketLastWins(_)
reduceTopMarketLastWins(activeMarkets) ==
    IF activeMarkets = <<>> THEN JNull
    ELSE LET best == reduceTopMarketLastWins(SubSeq(activeMarkets, 1, Len(activeMarkets) - 1))
             current == activeMarkets[Len(activeMarkets)]
         IN  IF best = JNull THEN current
             ELSE IF VolumeOf(current) >= VolumeOf(best) THEN current ELSE best

\* activeMarkets.reduce((best, current) => ..., null)
RECURSIVE reduceTopMarket(_)
reduceTopMarket(activeMarkets) ==
    IF activeMarkets = <<>> THEN JNull
    ELSE LET best == reduceTopMarket(SubSeq(activeMarkets, 1, Len(activeMarkets) - 1))
             current == activeMarkets[Len(activeMarkets)]
         IN  IF best = JNull THEN current
             ELSE IF VolumeOf(current) > VolumeOf(best) THEN current ELSE best

IsActive(m) == m.status = "active"

\* function getTopActiveMarket(markets): Market | null
getTopActiveMarket(markets) == reduceTopMarket(SelectSeq(markets, IsActive))

\* orderbook?.yes_bids ?? {} (and no_bids): the price keys of one side.
BidsMap(book, field) ==
    IF book.t = "null" \/ field \notin DOMAIN book THEN {} ELSE book[field]

\* Object.keys(map).map(Number).filter((p) => Number.isFinite(p) && p > 0)
Prices(keys) ==
    {PriceOf(k)[1] : k \in {k \in keys : PriceOf(k) # NaN /\ PriceOf(k)[1] > 0}}

\* prices.length ? Math.max(...prices) : null   (null is <<>>)
BestBid(prices) ==
    IF prices = {} THEN <<>>
    ELSE <<CHOOSE p \in prices : \A q \in prices : q <= p>>

\* A faulty choice: with a bid on one side only, the "no" side is taken.
ChooseSideSingleIsNo(yesBestBid, noBestBid) ==
    IF yesBestBid # <<>> /\ noBestBid # <<>>
    THEN IF yesBestBid[1] <= noBestBid[1] THEN "yes" ELSE "no"
    ELSE "no"

\* A faulty choice: on equal best bids the "no" side is taken.
ChooseSideStrict(yesBestBid, noBestBid) ==
    IF yesBestBid # <<>> /\ noBestBid # <<>>
    THEN IF yesBestBid[1] < noBestBid[1] THEN "yes" ELSE "no"
    ELSE IF yesBestBid # <<>> THEN "yes" ELSE "no"

\* const side = ... : the side with the lower best bid, "yes" on a tie.
ChooseSide(yesBestBid, noBestBid) ==
    IF yesBestBid # <<>> /\ noBestBid # <<>>
    THEN IF yesBestBid[1] <= noBestBid[1] THEN "yes" ELSE "no"
    ELSE IF yesBestBid # <<>> THEN "yes" ELSE "no"

SideOf(book) ==
    ChooseSide(BestBid(Prices(BidsMap(book, "yes_bids"))),
               BestBid(Prices(BidsMap(book, "no_bids"))))

OrderbookIsEmpty(book) ==
    /\ BestBid(Prices(BidsMap(book, "yes_bids"))) = <<>>
    /\ BestBid(Prices(BidsMap(book, "no_bids"))) = <<>>

\* A faulty getOutcomeMintForMarket: the first account is taken whether or
\* not the market has an account of the settlement mint.
getOutcomeMintFirstAccount(market, side, settlementMint) ==
    IF market.accounts = <<>> THEN Undefined
    ELSE IF side = "yes" THEN market.accounts[1].yesMint
    ELSE market.accounts[1].noMint

\* function getOutcomeMintForMarket(market, side, settlementMint): the mint,
\* or Undefined for null.
getOutcomeMintForMarket(market, side, settlementMint) ==
    LET accounts == market.accounts
        preferred == {i \in DOMAIN accounts : accounts[i].key = settlementMint}
        account ==
            IF preferred # {} THEN accounts[CHOOSE i \in preferred : TRUE]
            ELSE accounts[1]
    IN  IF accounts = <<>> THEN Undefined
        ELSE IF side = "yes" THEN account.yesMint ELSE account.noMint

\* errorText.toLowerCase().includes("zero out amount")
IsZeroOut(text) == text \in {"Zero out amount", "zero out amount"}

\* A faulty lifeFetchOrder: the code of a JSON error body is dropped.
lifeFetchOrderDropsCode(r) ==
    IF r.type = "reject"
    THEN Err(Error("TypeError", <<"fetch failed">>))
    ELSE IF ~r.ok
    THEN Ok([t |-> "object",
             errorCode |-> IF IsZeroOut(r.body.text) THEN "zero_out_amount"
                           ELSE "request_failed"])
    ELSE JSONparse(r.body)

\* async function fetchOrder(params) of the lifecycle: a failed request is
\* answered with { errorCode }, a 2xx answer with its parsed body.
lifeFetchOrder(r) ==
    IF r.type = "reject"
    THEN Err(Error("TypeError", <<"fetch failed">>))
    ELSE IF ~r.ok
    THEN IF JSONparse(r.body).ok /\ JSONparse(r.body).value.t # "null"
         THEN Ok([t |-> "object",
                  errorCode |->
                      IF Get(JSONparse(r.body).value, "code") = Undefined
                      THEN "request_failed"
                      ELSE JSONparse(r.body).value.code])
         ELSE Ok([t |-> "object",
                  errorCode |-> IF IsZeroOut(r.body.text) THEN "zero_out_amount"
                                ELSE "request_failed"])
    ELSE JSONparse(r.body)

\* What fetchOrder of the lifecycle writes with console.error: the msg of a
\* JSON body ("" without one), the text of any other body.
lifeFetchOrderLines(r) ==
    IF r.type = "reject" THEN <<>>
    ELSE IF r.ok THEN <<>>
    ELSE IF JSONparse(r.body).ok /\ JSONparse(r.body).value.t # "null"
    THEN <<Line("stderr", "Order request failed: {}", <<>>,
                <<IF Get(JSONparse(r.body).value, "msg") = Undefined THEN ""
                  ELSE JSONparse(r.body).value.msg>>)>>
    ELSE <<Line("stderr", "Order request failed: {}", <<>>, <<r.body.text>>)>>

\* order?.field
OptGet(o, f) == IF o.t = "null" THEN Undefined ELSE Get(o, f)

\* Number(estimate?.outAmount ?? 0)
EstimateOut(e) ==
    IF OptGet(e, "outAmount") = Undefined THEN Num(0)
    ELSE NumberOf(OptGet(e, "outAmount"))

\* Number(estimate?.inAmount ?? maxAmount)
EstimateIn(e, maxAmount) ==
    IF OptGet(e, "inAmount") = Undefined THEN Num(maxAmount)
    ELSE NumberOf(OptGet(e, "inAmount"))

\* ceil(1_000_000 * x / y) for y > 0, in steps of a factor 1000 so that no
\* intermediate product leaves the 32-bit integers of the checker.  The
\* script computes it in doubles, which are exact at these magnitudes.
CeilMillionTimes(x, y) ==
    LET a == x \div y
        x1 == 1000 * (x % y)
        x2 == 1000 * (x1 % y)
    IN  1000000 * a + 1000 * (x1 \div y) + ((x2 + y - 1) \div y)

\* A faulty ScaledAmount: the quotient is rounded down.
ScaledAmountFloor(estimateIn, estimateOut) ==
    IF estimateIn = NaN \/ estimateOut = NaN \/ estimateOut = Num(0) THEN NaN
    ELSE LET x == estimateIn[1]
             y == estimateOut[1]
             x1 == 1000 * (x % y)
             x2 == 1000 * (x1 % y)
         IN  Num(1000000 * (x \div y) + 1000 * (x1 \div y) + (x2 \div y))

\* Math.ceil((1_000_000 * estimateIn) / estimateOut), for estimateOut > 0
ScaledAmount(estimateIn, estimateOut) ==
    IF estimateIn = NaN \/ estimateOut = NaN \/ estimateOut = Num(0) THEN NaN
    ELSE Num(CeilMillionTimes(estimateIn[1], estimateOut[1]))

\* scaledAmount > maxAmount (false for NaN)
ExceedsMax(amount, maxAmount) == amount # NaN /\ amount[1] > maxAmount

\* !order?.transaction
NoTransaction(o) == OptGet(o, "transaction") \in {Undefined, ""}

\* Number(order.outAmount) !== 1_000_000
NotOneContract(o) ==
    \/ Get(o, "outAmount") = Undefined
    \/ NumberOf(o.outAmount) # Num(ONE_CONTRACT)

\* function getKeypair() of the lifecycle: no try/catch, so an unparseable
\* key throws what JSON.parse, bs58.decode or Keypair.fromSecretKey throw.
lifeGetKeypair(env) ==
    CASE env = "unset" ->
           Err(Error("Error", <<"SOLANA_PRIVATE_KEY environment variable is required">>))
      [] env = "malformed" -> Err(Error("Error", <<"bad secret key size">>))
      [] OTHER -> Ok(JNull)

\* main().catch of the lifecycle: a message naming SOLANA_PRIVATE_KEY gets its
\* own line; every other error is printed after "Error:".
lifeCatchLines(e) ==
    IF e.detail # <<>> /\ e.detail[1] = "SOLANA_PRIVATE_KEY environment variable is required"
    THEN <<Line("stderr",
                "Missing SOLANA_PRIVATE_KEY. Set it in .env as a base58 string or JSON array.",
                <<>>, <<>>)>>
    ELSE <<Line("stderr", "Error:", <<>>, <<e.kind>> \o e.detail)>>

\* main returns: the process ends with code 0.
Return ==
    /\ pc' = "exited"
    /\ exitCode' = 0

\* const keypair = getKeypair()   (this getKeypair has no try/catch)
LifeLoadKeypair ==
    /\ script \in LifecycleScripts
    /\ pc = "start"
    /\ IF lifeGetKeypair(keyEnv).ok
       THEN pc' = "getEvents" /\ UNCHANGED thrown
       ELSE Throw(lifeGetKeypair(keyEnv).error)
    /\ UNCHANGED <<processEnv, received, tradeVars, script, keyEnv, steps, intentData, signedTx, submitBody,
                   submitIntentData, observed, result, console, exitCode>>

\* const events = await getEvents(): the request leaves.
LifeRequestEvents ==
    /\ script \in LifecycleScripts
    /\ pc = "getEvents"
    /\ steps' = Append(steps, "eventsRequest")
    /\ pc' = "awaitEvents"
    /\ UNCHANGED <<processEnv, received, tradeVars, script, keyEnv, intentData, signedTx, submitBody,
                   submitIntentData, observed, result, console, thrown, exitCode>>

\* getEvents settles; main scans the events for a market with volume >
\* MIN_VOLUME, takes the top active market of its event and asks for the
\* orderbook of that market.
LifeEventsResponse(r) ==
    /\ script \in LifecycleScripts
    /\ pc = "awaitEvents"
    /\ IF ~getEvents(r).ok
       THEN /\ Throw(getEvents(r).error)
            /\ UNCHANGED <<events, topMarket, steps, console, exitCode>>
       ELSE /\ events' = getEvents(r).value
            /\ UNCHANGED thrown
            /\ IF HighVolumePlaces(getEvents(r).value) = {}
               THEN /\ console' = console \o getEventsLines(r) \o
                          <<Line("stdout", "No market with volume > 1m found in this batch.",
                                 <<>>, <<>>)>>
                    /\ Return
                    /\ UNCHANGED <<topMarket, steps>>
               ELSE LET es == getEvents(r).value
                        markets == es[FirstHighVolume(es)[1]].markets
                    IN  IF getTopActiveMarket(markets) = JNull
                        THEN /\ console' = Append(console,
                                    Line("stdout", "No active markets found for this event.",
                                         <<>>, <<>>))
                             /\ Return
                             /\ UNCHANGED <<topMarket, steps>>
                        ELSE /\ topMarket' = getTopActiveMarket(markets)
                             /\ steps' = Append(steps, "orderbookRequest")
                             /\ pc' = "awaitOrderbook"
                             /\ UNCHANGED <<console, exitCode>>
    /\ received' = Append(received, [call |-> "events", response |-> r])
    /\ UNCHANGED <<processEnv, order, signature, confirmation, orderbook, outputMint, estimate,
                   scaledAmount, phase, requests, script, keyEnv, intentData, signedTx,
                   submitBody, submitIntentData, observed, result>>

\* getOrderbookForMaket settles; executeOrderForMarket picks the side and the
\* outcome mint and asks for the probe order of maxAmount.
LifeOrderbookResponse(r) ==
    /\ script \in LifecycleScripts
    /\ pc = "awaitOrderbook"
    /\ IF ~getOrderbookForMaket(r).ok
       THEN /\ Throw(getOrderbookForMaket(r).error)
            /\ UNCHANGED <<orderbook, outputMint, phase, requests, steps, console, exitCode>>
       ELSE LET book == getOrderbookForMaket(r).value
                mint == getOutcomeMintForMarket(topMarket, SideOf(book), SETTLEMENT_MINT)
            IN  /\ orderbook' = book
                /\ UNCHANGED thrown
                /\ IF OrderbookIsEmpty(book)
                   THEN /\ console' = console \o getOrderbookLines(r) \o
                              <<Line("stdout",
                                     "Orderbook is empty. Cannot price a 1-contract buy.",
                                     <<>>, <<>>)>>
                        /\ Return
                        /\ UNCHANGED <<outputMint, phase, requests, steps>>
                   ELSE IF mint \in {Undefined, ""}
                   THEN /\ console' = Append(console,
                               Line("stdout", "No outcome mint found for market.", <<>>, <<>>))
                        /\ Return
                        /\ UNCHANGED <<outputMint, phase, requests, steps>>
                   ELSE /\ outputMint' = mint
                        /\ phase' = "buy"
                        /\ requests' = Append(requests,
                               OrderRequest("probe", SETTLEMENT_MINT, mint,
                                            Num(MAX_TRADE_AMOUNT), Num(SLIPPAGE_BPS)))
                        /\ steps' = Append(steps, "orderRequest")
                        /\ pc' = "awaitEstimate"
                        /\ UNCHANGED <<console, exitCode>>
    /\ received' = Append(received, [call |-> "orderbook", response |-> r])
    /\ UNCHANGED <<processEnv, order, signature, confirmation, events, topMarket, estimate,
                   scaledAmount, script, keyEnv, intentData, signedTx,
                   submitBody, submitIntentData, observed, result>>

\* The probe settles; the amount is scaled to one contract and, unless it
\* exceeds maxAmount, the buy order is asked for.
LifeEstimateResponse(r) ==
    /\ script \in LifecycleScripts
    /\ pc = "awaitEstimate"
    /\ IF ~lifeFetchOrder(r).ok
       THEN /\ Throw(lifeFetchOrder(r).error)
            /\ UNCHANGED <<estimate, scaledAmount, requests, steps, console, exitCode>>
       ELSE LET e == lifeFetchOrder(r).value
                out == EstimateOut(e)
                scaled == ScaledAmount(EstimateIn(e, MAX_TRADE_AMOUNT), out)
            IN  /\ estimate' = e
                /\ UNCHANGED thrown
                /\ IF out = NaN \/ out = Num(0)
                   THEN /\ console' = console \o lifeFetchOrderLines(r)
                        /\ Return
                        /\ UNCHANGED <<scaledAmount, requests, steps>>
                   ELSE IF ExceedsMax(scaled, MAX_TRADE_AMOUNT)
                   THEN /\ scaledAmount' = scaled
                        /\ console' = Append(console,
                               Line("stdout", "1 contract costs more than 1 USDC. Skipping trade.",
                                    <<>>, <<>>))
                        /\ Return
                        /\ UNCHANGED <<requests, steps>>
                   ELSE /\ scaledAmount' = scaled
                        /\ requests' = Append(requests,
                               OrderRequest("buy", SETTLEMENT_MINT, outputMint, scaled,
                                            Num(SLIPPAGE_BPS)))
                        /\ steps' = Append(steps, "orderRequest")
                        /\ pc' = "awaitOrder"
                        /\ UNCHANGED <<console, exitCode>>
    /\ received' = Append(received, [call |-> "order", response |-> r])
    /\ UNCHANGED <<processEnv, order, signature, confirmation, events, topMarket, orderbook,
                   outputMint, phase, script, keyEnv, intentData, signedTx,
                   submitBody, submitIntentData, observed, result>>

\* The buy order (or, in sellOutcomeToken, the sell order) settles; it is
\* signed unless it has no transaction or, for the buy, is not one contract.
LifeOrderResponse(r) ==
    /\ script \in LifecycleScripts
    /\ pc = "awaitOrder"
    /\ IF ~lifeFetchOrder(r).ok
       THEN /\ Throw(lifeFetchOrder(r).error)
            /\ UNCHANGED <<order, signedTx, steps, console, exitCode>>
       ELSE LET o == lifeFetchOrder(r).value
            IN  /\ order' = o
                /\ IF NoTransaction(o)
                   THEN /\ console' = console \o lifeFetchOrderLines(r)
                        /\ Return
                        /\ UNCHANGED <<signedTx, steps, thrown>>
                   ELSE IF phase = "buy" /\ NotOneContract(o)
                   THEN /\ console' = Append(console,
                               Line("stdout",
                                    "Order did not return exactly 1 contract. Skipping trade.",
                                    <<>>, <<>>))
                        /\ Return
                        /\ UNCHANGED <<signedTx, steps, thrown>>
                   ELSE IF signOrder(o).ok
                   THEN /\ signedTx' = signOrder(o).value
                        /\ steps' = Append(steps, "sign")
                        /\ pc' = "send"
                        /\ UNCHANGED <<console, thrown, exitCode>>
                   ELSE /\ Throw(signOrder(o).error)
                        /\ UNCHANGED <<signedTx, steps, console, exitCode>>
    /\ received' = Append(received, [call |-> "order", response |-> r])
    /\ UNCHANGED <<processEnv, lifeVars, signature, confirmation, script, keyEnv, intentData,
                   submitBody, submitIntentData, observed, result>>

\* sellOutcomeToken(outcomeMint, ...): the order to sell one contract of the
\* mint that was bought is asked for.
LifeRequestSell ==
    /\ script \in LifecycleScripts
    /\ pc = "sell"
    /\ phase' = "sell"
    /\ requests' = Append(requests,
           OrderRequest("sell", outputMint, SETTLEMENT_MINT, Num(ONE_CONTRACT),
                        Num(SLIPPAGE_BPS)))
    /\ steps' = Append(steps, "orderRequest")
    /\ pc' = "awaitOrder"
    /\ UNCHANGED <<processEnv, received, order, signature, confirmation, events, topMarket, orderbook,
                   outputMint, estimate, scaledAmount, script, keyEnv, intentData,
                   signedTx, submitBody, submitIntentData, observed, result,
                   console, thrown, exitCode>>

\* main().catch((error) => { ...; process.exit(1); }) of the lifecycle.
LifeCatch ==
    /\ script \in LifecycleScripts
    /\ pc = "rejected"
    /\ console' = console \o lifeCatchLines(thrown)
    /\ pc' = "exited"
    /\ exitCode' = 1
    /\ UNCHANGED <<processEnv, received, tradeVars, script, keyEnv, steps, intentData, signedTx, submitBody,
                   submitIntentData, observed, result, thrown>>

\* The steps the script takes by itself.
Program ==
    \/ DeclLoadKeypair
    \/ DeclRequestQuote
    \/ DeclSign
    \/ DeclSubmit
    \/ DeclCallMonitor
    \/ DeclClassify
    \/ ImpLoadKeypair
    \/ ImpRequestOrder
    \/ ImpSign
    \/ SendRaw
    \/ LifeLoadKeypair
    \/ LifeRequestEvents
    \/ LifeRequestSell
    \/ LifeCatch
    \/ MainCatch

\* The steps that wait for the outside world.
Environment ==
    \/ \E r \in Responses(IntentValues) : DeclQuoteResponse(r)
    \/ \E r \in Responses(SubmitValues) : DeclSubmitResponse(r)
    \/ \E st \in ORDER_STATUS : MonitorObserve(st)
    \/ \E fills \in FillLists, terr \in TransactionErrors : MonitorResolve(fills, terr)
    \/ \E e \in MonitorErrors : MonitorReject(e)
    \/ \E r \in Responses(OrderValues) : ImpOrderResponse(r)
    \/ \E sig \in Signatures : SendResolve(sig)
    \/ \E e \in RpcErrors : SendReject(e)
    \/ \E c \in Confirmations : ConfirmResolve(c)
    \/ \E e \in RpcErrors : ConfirmReject(e)
    \/ \E r \in Responses(EventsValues) : LifeEventsResponse(r)
    \/ \E r \in Responses(OrderbookValues) : LifeOrderbookResponse(r)
    \/ \E r \in Responses(EstimateValues) : LifeEstimateResponse(r)
    \/ \E r \in Responses(OrderValues) : LifeOrderResponse(r)

Next == Program \/ Environment

Spec == Init /\ [][Next]_vars

\* The event loop runs every continuation that is ready; nothing obliges a
\* remote service to answer.
FairSpec == Spec /\ WF_vars(Program)

\* The market lifecycle up to its market selection, with the events request
\* answered by one event that holds any of the market lists.
SelectionInit == Init /\ script \in LifecycleScripts

SelectionNext ==
    \/ LifeLoadKeypair
    \/ LifeRequestEvents
    \/ \E ms \in MarketLists :
           LifeEventsResponse(
               HttpResponse(TRUE, JsonBody([t |-> "object",
                                            events |-> <<Event("E1", ms)>>])))
    \/ LifeCatch

SelectionSpec == SelectionInit /\ [][SelectionNext]_vars

---------------------------------------------------------------------------
(* Properties of the declarative trade *)

Range(s) == {s[i] : i \in DOMAIN s}

IsPrefix(s, t) == Len(s) <= Len(t) /\ \A i \in DOMAIN s : s[i] = t[i]

Last(s) == s[Len(s)]

\* The operations of the declarative trade and their successes, in the order
\* main performs them.
DeclarativeOrder ==
    <<"quoteRequest", "quoteOk", "sign", "submitRequest", "submitOk",
      "monitorCall", "monitorReturn">>

\* The statuses after which an order changes no more.
TerminalStatuses == {"CLOSED", "OPEN_EXPIRED", "OPEN_FAILED"}

\* The lines the classification of a monitor result can print.
OrderTexts ==
    {"Order succeeded: sent {}, received {}", "Order failed",
     "Transaction expired. Try again with a higher slippage tolerance."}

IsOrderLine(l) == l.stream = "stdout" /\ l.text \in OrderTexts

\* C1: the declarative trade performs quote request, intent signing, submit
\* and monitoring in this order, each step only after the one before it has
\* succeeded; once a step has thrown, no later step is performed.
C1_StepsInOrder ==
    /\ [](script \in DeclarativeScripts => IsPrefix(steps, DeclarativeOrder))
    /\ [][(script \in DeclarativeScripts /\ thrown # NoError) => steps' = steps]_vars

\* A complete run: every step was performed, in order, and main returned.
C1_Witness ==
    /\ script \in DeclarativeScripts
    /\ steps = DeclarativeOrder
    /\ pc = "exited"

C4_EveryRunTerminates == <>(pc = "exited")

\* The sum of field f over the fills, taken over the set of their places.
RECURSIVE SumOver(_, _, _)
SumOver(fills, f, places) ==
    IF places = {} THEN 0
    ELSE LET i == CHOOSE i \in places : TRUE
         IN  fills[i][f] + SumOver(fills, f, places \ {i})

\* The monitor returned a filled order: status CLOSED or PENDING_CLOSE and at
\* least one fill.
FilledOutcome ==
    /\ script \in DeclarativeScripts
    /\ pc = "exited"
    /\ result.status \in {"CLOSED", "PENDING_CLOSE"}
    /\ Len(result.fills) > 0

\* C5: a filled order is reported as a success whose totals are the sum of
\* qtyIn and the sum of qtyOut over all fills.
C5_TotalsAreSums ==
    FilledOutcome =>
        /\ exitCode = 0
        /\ console = <<Line("stdout", "Order succeeded: sent {}, received {}",
                            <<SumOver(result.fills, "qtyIn", DOMAIN result.fills),
                              SumOver(result.fills, "qtyOut", DOMAIN result.fills)>>,
                            <<>>)>>

\* Two different fills were added up.
C5_Witness ==
    /\ FilledOutcome
    /\ result.fills = <<[qtyIn |-> 3, qtyOut |-> 7], [qtyIn |-> 2, qtyOut |-> 5]>>
    /\ console[1].nums = <<5, 12>>

\* The rearrangements of 1..n.
Rearrangements(n) ==
    {p \in [1..n -> 1..n] : \A i, j \in 1..n : p[i] = p[j] => i = j}

Permute(s, p) == [i \in 1..Len(s) |-> s[p[i]]]

\* C6: what is reported for a filled order does not depend on the order of
\* the fills: every rearrangement of them is classified to the line printed.
C6_FillOrderIrrelevant ==
    FilledOutcome =>
        \A p \in Rearrangements(Len(result.fills)) :
            Classify([result EXCEPT !.fills = Permute(result.fills, p)]) = console

\* The fills of the example arrived in the other order and gave 5 and 12.
C6_Witness ==
    /\ FilledOutcome
    /\ result.fills = <<[qtyIn |-> 2, qtyOut |-> 5], [qtyIn |-> 3, qtyOut |-> 7]>>
    /\ console[1].nums = <<5, 12>>

C8_ClassificationIsTotal ==
    script \in DeclarativeScripts =>
        /\ (pc = "classify" => result.status \in ORDER_STATUS)
        /\ (pc = "exited" /\ result # NoResult) =>
               /\ Len(console) = 1
               /\ IsOrderLine(console[1])
               /\ (result.status = "OPEN_EXPIRED" =>
                       console[1] =
                           Line("stdout",
                                "Transaction expired. Try again with a higher slippage tolerance.",
                                <<>>, <<>>))
               /\ (result.status = "OPEN_FAILED" =>
                       console[1] = Line("stdout", "Order failed", <<>>,
                                         <<result.transactionError>>))
               /\ (result.status \in {"CLOSED", "PENDING_CLOSE"} =>
                       console[1].text = IF Len(result.fills) > 0
                                         THEN "Order succeeded: sent {}, received {}"
                                         ELSE "Order failed")

\* An order expired after it had been seen pending, and the advice was printed.
C8_Witness ==
    /\ script \in DeclarativeScripts
    /\ pc = "exited"
    /\ result.status = "OPEN_EXPIRED"
    /\ Len(observed) > 1
    /\ console[1].text = "Transaction expired. Try again with a higher slippage tolerance."

---------------------------------------------------------------------------
(* Properties of the answers of the APIs *)

\* A 2xx answer without a body.
IsEmpty2xx(r) == IF r.type = "response" THEN r.ok /\ r.body.text = "" ELSE FALSE

\* C9 (as the specification states it): in every client call a 2xx answer
\* with an empty body yields an error.
C9_EmptyBodyIsAlwaysAnError ==
    \A i \in DOMAIN received :
        IsEmpty2xx(received[i].response) => thrown # NoError

\* C9 (amended): a 2xx answer with an empty body is the last answer the run
\* takes.  To the intent, submit and order calls it is an error: main throws
\* and the run ends with exit code 1.  getEvents and getOrderbookForMaket log
\* it on stderr and return [] and null; the run then ends with exit code 0
\* and has requested no order and signed nothing.
C9_EmptyBodyEndsTheRun ==
    \A i \in DOMAIN received :
        IsEmpty2xx(received[i].response) =>
            /\ i = Len(received)
            /\ IF received[i].call \in {"events", "orderbook"}
               THEN /\ thrown = NoError
                    /\ pc = "exited"
                    /\ exitCode = 0
                    /\ \E j \in DOMAIN console :
                           /\ console[j].stream = "stderr"
                           /\ console[j].text \in
                                  {"Events request returned an empty body.",
                                   "Orderbook request returned an empty body."}
                    /\ requests = <<>>
                    /\ signedTx = NoTx
               ELSE /\ thrown.kind \in {"Error", "SyntaxError"}
                    /\ pc \in {"rejected", "exited"}
                    /\ (pc = "exited" => exitCode = 1)

\* The events request was answered 200 without a body and the lifecycle ended
\* normally.
C9_Witness ==
    /\ script \in LifecycleScripts
    /\ received # <<>>
    /\ Last(received).call = "events"
    /\ IsEmpty2xx(Last(received).response)
    /\ pc = "exited"
    /\ exitCode = 0

\* What the fetch of the i-th answer returned to main.
Fetched(i) ==
    IF received[i].call = "intent" THEN FetchIntent(script, received[i].response)
    ELSE IF script \in ImperativeScripts THEN fetchOrder(received[i].response)
    ELSE lifeFetchOrder(received[i].response)

\* The value carries a transaction to sign (openTransaction for an intent).
HasPayload(v, call) ==
    IF call = "intent"
    THEN OptGet(v, "openTransaction") \notin {Undefined, ""}
    ELSE ~NoTransaction(v)

\* The { errorCode } the lifecycle's fetchOrder returns for a failed request.
IsErrorValue(v) == OptGet(v, "errorCode") # Undefined

\* The fetch of the i-th answer returned a value that is no error and carries
\* no transaction.
EmptySuccess(i) ==
    /\ received[i].call \in {"intent", "order"}
    /\ Fetched(i).ok
    /\ ~IsErrorValue(Fetched(i).value)
    /\ ~HasPayload(Fetched(i).value, received[i].call)

\* The TradeRequest invariant: amount > 0, slippageBps in [0, 10000] and two
\* different mints.
ValidRequest(q) ==
    /\ q.amount # NaN
    /\ q.amount[1] > 0
    /\ q.slippageBps # NaN
    /\ q.slippageBps[1] >= 0
    /\ q.slippageBps[1] <= 10000
    /\ q.inputMint # q.outputMint

\* Every request issued so far was valid.
ValidRequests == \A j \in DOMAIN requests : ValidRequest(requests[j])

---------------------------------------------------------------------------
(* Properties of failed requests *)

\* A non-2xx answer.
IsNonOk(r) == IF r.type = "response" THEN ~r.ok ELSE FALSE

\* The body is a JSON object with a code field.
HasCode(body) ==
    IF body.kind = "json"
    THEN body.value.t # "null" /\ Get(body.value, "code") # Undefined
    ELSE FALSE

\* What the claim expects the error of a non-2xx answer to carry: the code of
\* the body, or else the raw text of the body.
ExpectedCarried(body) == IF HasCode(body) THEN body.value.code ELSE body.text

\* The order value the lifecycle got last: the probe when it failed, or else
\* the order.
LastOrderValue == IF IsErrorValue(estimate) THEN estimate ELSE order

\* What the error in hand carries: the parts of the message of the error
\* thrown, and the errorCode of the value fetchOrder returned.
Carried ==
    Range(thrown.detail) \cup
    (IF IsErrorValue(LastOrderValue) THEN {LastOrderValue.errorCode} ELSE {})

ExpectedErrorCode(body) ==
    CASE HasCode(body) -> body.value.code
      [] body.kind = "text" /\ body.text \in {"Zero out amount", "zero out amount"} ->
           "zero_out_amount"
      [] OTHER -> "request_failed"

KnownNoTradeCodes == {"zero_out_amount", "insufficient_liquidity"}

\* C12 (as the specification states it): when an order request was refused
\* with a known no-trade code, the run ends without a thrown failure and the
\* last thing it reports is an outcome of its own on stdout, not the log of
\* the failed request.
C12_KnownCodeEndsAsNoTrade ==
    \A i \in DOMAIN received :
        (/\ received[i].call = "order"
         /\ IsNonOk(received[i].response)
         /\ ExpectedErrorCode(received[i].response.body) \in KnownNoTradeCodes
         /\ pc = "exited") =>
            /\ thrown = NoError
            /\ console # <<>>
            /\ Last(console).stream = "stdout"

---------------------------------------------------------------------------
(* Properties of the requests *)

\* How often x occurs in s.
Count(s, x) == Cardinality({i \in DOMAIN s : s[i] = x})

\* The run has ended in main().catch: the error is on stderr, exit code 1.
EndsWithError ==
    /\ thrown # NoError
    /\ pc \in {"rejected", "exited"}
    /\ pc = "exited" =>
           /\ exitCode = 1
           /\ console # <<>>
           /\ Last(console).stream = "stderr"

\* No request is issued twice: the trades issue each of their requests at
\* most once; the lifecycle asks once for the events, once for the orderbook,
\* once for each of the probe, buy and sell orders, and broadcasts only what
\* it has just signed.
IssuedOnce ==
    /\ script \notin LifecycleScripts =>
           \A x \in Range(steps) : Count(steps, x) = 1
    /\ script \in LifecycleScripts =>
           /\ Count(steps, "eventsRequest") <= 1
           /\ Count(steps, "orderbookRequest") <= 1
           /\ Count(steps, "orderRequest") = Len(requests)
           /\ \A i, j \in DOMAIN requests :
                  requests[i].kind = requests[j].kind => i = j
           /\ Count(steps, "send") <= Count(steps, "sign")
           /\ Count(steps, "sign") <= 2

\* C13: no request is issued a second time, and a transport failure of a
\* fetch or of the broadcast ends the run in the catch handler with the error
\* on stderr and exit code 1; after an error no further request is issued.
C13_NoRetry ==
    /\ [](/\ IssuedOnce
          /\ \A i \in DOMAIN received :
                 received[i].response = FetchReject =>
                     /\ i = Len(received)
                     /\ thrown = Error("TypeError", <<"fetch failed">>)
                     /\ EndsWithError
          /\ thrown.kind \in RpcErrors => EndsWithError)
    /\ [][thrown # NoError => (steps' = steps /\ requests' = requests
                                /\ received' = received)]_vars

\* The broadcast of the imperative trade was rejected; it was attempted once
\* and the run ended with the error.
C13_Witness ==
    /\ script \in ImperativeScripts
    /\ thrown.kind = "SendTransactionError"
    /\ Count(steps, "send") = 1
    /\ pc = "exited"
    /\ exitCode = 1

C15_EveryRequestValid ==
    \A j \in DOMAIN requests : ValidRequest(requests[j])

----------------------------------------------------------------------------
(* Properties of the signing key *)

\* The script reads its signing key from SOLANA_PRIVATE_KEY (version 1 of the
\* declarative trade generates a key and reads none) and the variable is unset
\* or holds nothing that parses to a key.
KeyUnusable ==
    /\ script # "declarative_v1"
    /\ keyEnv \in {"unset", "malformed"}

\* C16: with a missing or unparseable signing key the run aborts at its first
\* step with an error: no request is issued, nothing is signed, submitted or
\* broadcast, the error ends the run with exit code 1, and the aborted run
\* takes no further step of the workflow.
C16_BadKeyAbortsBeforeAnyRequest ==
    /\ [](KeyUnusable =>
            /\ requests = <<>>
            /\ steps = <<>>
            /\ received = <<>>
            /\ signedTx = NoTx
            /\ submitBody = NoBody
            /\ signature = Undefined
            /\ pc \in {"start", "rejected", "exited"}
            /\ pc # "start" => EndsWithError)
    /\ [][KeyUnusable /\ pc # "start" => pc' \in {"rejected", "exited"}]_vars

\* A run with an unparseable key has ended in the catch of main.
C16_Witness ==
    /\ KeyUnusable
    /\ keyEnv = "malformed"
    /\ pc = "exited"
    /\ exitCode = 1

----------------------------------------------------------------------------
(* Properties of the broadcast *)

\* The script has printed "Transaction confirmed".
ReportedConfirmed ==
    \E i \in DOMAIN console : console[i].text = "Transaction confirmed"

\* C17 (as the specification states it): the imperative trade prints
\* "Transaction confirmed" only after the broadcast returned a signature and
\* the confirmation came back without an error; after a failed broadcast, a
\* timeout or an on-chain error it is never printed.
C17_ConfirmedOnlyWhenOk ==
    (script \in ImperativeScripts /\ ReportedConfirmed) =>
        /\ signature \in Signatures
        /\ confirmation = "err:null"

----------------------------------------------------------------------------
(* Properties of the market selection *)

\* The volume a market counts with: its volume, 0 when it has none.
VolumeOrZero(m) == IF m.volume = <<>> THEN 0 ELSE m.volume[1]

\* m is what the selection has to return for the list ms: nothing when ms has
\* no active market, else the first active market of maximal volume.
IsFirstTopActive(ms, m) ==
    LET active == {i \in DOMAIN ms : ms[i].status = "active"}
    IN  IF active = {} THEN m = JNull
        ELSE \E i \in active :
                /\ m = ms[i]
                /\ \A j \in active :
                      /\ VolumeOrZero(ms[j]) <= VolumeOrZero(ms[i])
                      /\ VolumeOrZero(ms[j]) = VolumeOrZero(ms[i]) => i <= j

\* C18: for every list of markets the selection returns the first active
\* market of maximal volume (a missing volume counting as 0), and no market
\* exactly when the list has no active market; the market the lifecycle goes
\* on with is that market of the event it stopped at.
C18_SelectsFirstTopActive ==
    /\ \A i \in DOMAIN events :
          IsFirstTopActive(events[i].markets, getTopActiveMarket(events[i].markets))
    /\ pc = "awaitOrderbook" =>
          IsFirstTopActive(events[FirstHighVolume(events)[1]].markets, topMarket)

\* The selection has run on a list with two different active markets of the
\* same maximal volume and has taken the first.
C18_Witness ==
    /\ pc = "awaitOrderbook"
    /\ Len(events) = 1
    /\ \E i, j \in DOMAIN events[1].markets :
          /\ i < j
          /\ events[1].markets[i] # events[1].markets[j]
          /\ IsActive(events[1].markets[i]) /\ IsActive(events[1].markets[j])
          /\ VolumeOf(events[1].markets[i]) = VolumeOf(events[1].markets[j])
          /\ topMarket = events[1].markets[i]
          /\ \E k \in DOMAIN events[1].markets : ~IsActive(events[1].markets[k])

----------------------------------------------------------------------------
(* Properties of the side to buy *)

\* The positive finite bid prices of one side of the orderbook the lifecycle
\* holds, and the largest of them.
PositiveBids(field) ==
    IF orderbook.t = "null" \/ field \notin DOMAIN orderbook THEN {}
    ELSE {PriceOf(k)[1] : k \in {k \in orderbook[field] :
                                    PriceOf(k) # NaN /\ PriceOf(k)[1] > 0}}

MaxOf(S) == CHOOSE p \in S : \A q \in S : q <= p

BothSidesBid == PositiveBids("yes_bids") # {} /\ PositiveBids("no_bids") # {}

\* The side with the lower best bid, "yes" when the best bids are equal.
CheaperSide ==
    IF MaxOf(PositiveBids("no_bids")) < MaxOf(PositiveBids("yes_bids"))
    THEN "no" ELSE "yes"

\* C19: when both sides of the orderbook have a positive finite bid, the side
\* bought is the one with the lower best (maximal) bid, and "yes" when the two
\* best bids are equal; the outcome mint of the orders is the mint of that side.
C19_BuysCheaperSide ==
    BothSidesBid =>
        /\ SideOf(orderbook) = CheaperSide
        /\ phase = "buy" =>
              outputMint = getOutcomeMintForMarket(topMarket, CheaperSide, SETTLEMENT_MINT)

\* Best YES bid 0.62 and best NO bid 0.41: the NO mint is bought.
C19_Witness ==
    /\ BothSidesBid
    /\ MaxOf(PositiveBids("yes_bids")) = 62
    /\ MaxOf(PositiveBids("no_bids")) = 41
    /\ phase = "buy"
    /\ outputMint = "noHigh"

\* Equal best bids: the YES mint is bought.
C19_WitnessTie ==
    /\ BothSidesBid
    /\ MaxOf(PositiveBids("yes_bids")) = MaxOf(PositiveBids("no_bids"))
    /\ phase = "buy"
    /\ outputMint = "yesHigh"

----------------------------------------------------------------------------
(* Properties of the scaled amount *)

\* floor(a * o / 1000000) for a, o >= 0, by long multiplication in base 1000
\* (the product itself does not fit the integers of the checker).
MillionsOfProduct(a, o) ==
    LET a1 == a \div 1000
        a0 == a % 1000
        o1 == o \div 1000
        o0 == o % 1000
        c0 == (a0 * o0) \div 1000
        c1 == (a1 * o0 + a0 * o1 + c0) \div 1000
    IN  a1 * o1 + c1

\* a is the least integer with a * out >= 1000000 * in.
IsLeastScaled(a, in, out) ==
    /\ MillionsOfProduct(a, out) >= in
    /\ a > 0 => MillionsOfProduct(a - 1, out) < in

\* The probe has answered with a positive outAmount.
ProbeEstimated ==
    /\ estimate.t # "null"
    /\ OptGet(estimate, "outAmount") # Undefined
    /\ NumberOf(estimate.outAmount) # NaN
    /\ NumberOf(estimate.outAmount)[1] > 0

\* C20 (as the specification states it): the scaled amount is
\* ceil(1,000,000 * probeAmount / estimatedOutAmount) with probeAmount the
\* amount of the probe order, MAX_TRADE_AMOUNT.
C20_ScaledFromProbeAmount ==
    (ProbeEstimated /\ pc # "awaitEstimate") =>
        /\ scaledAmount # NaN
        /\ IsLeastScaled(scaledAmount[1], MAX_TRADE_AMOUNT,
                         NumberOf(estimate.outAmount)[1])

\* The input amount the scaling starts from: the inAmount of the probe's
\* answer, MAX_TRADE_AMOUNT when the answer has none.
ReportedIn ==
    IF OptGet(estimate, "inAmount") = Undefined THEN Num(MAX_TRADE_AMOUNT)
    ELSE NumberOf(estimate.inAmount)

\* C20 (amended): the scaled amount is the least integer a with
\* a * estimatedOutAmount >= 1,000,000 * inAmount, where inAmount is the
\* inAmount the probe's answer reports and the probe amount only when the
\* answer reports none; it is no number when the reported inAmount is none.
\* The buy order is asked for with this amount, and not at all when the amount
\* exceeds MAX_TRADE_AMOUNT.
C20_ScaledFromReportedIn ==
    (ProbeEstimated /\ pc # "awaitEstimate") =>
        /\ IF ReportedIn = NaN THEN scaledAmount = NaN
           ELSE /\ scaledAmount # NaN
                /\ IsLeastScaled(scaledAmount[1], ReportedIn[1],
                                 NumberOf(estimate.outAmount)[1])
        /\ \A j \in DOMAIN requests :
              requests[j].kind = "buy" =>
                  /\ requests[j].amount = scaledAmount
                  /\ scaledAmount # NaN => scaledAmount[1] <= MAX_TRADE_AMOUNT

\* The probe of 1,000,000 answered inAmount 1,000,000 and outAmount 900,000:
\* the scaled amount is 1,111,112.
C20_Witness ==
    /\ ProbeEstimated
    /\ ReportedIn = Num(1000000)
    /\ NumberOf(estimate.outAmount) = Num(900000)
    /\ scaledAmount = Num(1111112)

\* The answer reports an inAmount other than the probe amount and the buy
\* order is asked for with the amount scaled from it.
C20_WitnessReported ==
    /\ ProbeEstimated
    /\ ReportedIn = Num(500000)
    /\ scaledAmount = Num(555556)
    /\ \E j \in DOMAIN requests : requests[j].kind = "buy"

----------------------------------------------------------------------------
(* Properties of the buy step *)

\* The buy transaction of the lifecycle has been signed.
BuySigned ==
    /\ script \in LifecycleScripts
    /\ phase = "buy"
    /\ signedTx.signed

\* C21 (as the specification states it): the buy transaction is signed and
\* broadcast only if the scaled amount is at most MAX_TRADE_AMOUNT and the
\* scaled order returned an outAmount of exactly 1,000,000; a scaled amount
\* above the maximum ends the buy step with no second order request.
C21_BuyOnlyWithinMaxAndOneContract ==
    /\ BuySigned =>
          /\ scaledAmount # NaN
          /\ scaledAmount[1] <= MAX_TRADE_AMOUNT
          /\ NumberOf(order.outAmount) = Num(ONE_CONTRACT)
    /\ (script \in LifecycleScripts /\ ExceedsMax(scaledAmount, MAX_TRADE_AMOUNT)) =>
          /\ \A j \in DOMAIN requests : requests[j].kind # "buy"
          /\ ~signedTx.signed
          /\ signature = Undefined

----------------------------------------------------------------------------
(* Properties of the sell step *)

\* The places of x in the sequence s.
Places(s, x) == {i \in DOMAIN s : s[i] = x}

\* The requests of one kind.
RequestsOf(kind) == {j \in DOMAIN requests : requests[j].kind = kind}

\* C22: the lifecycle asks for the sell order only after the buy transaction
\* of the run was broadcast and its confirmation returned; what it sells is
\* the outcome mint of the buy order; and a run broadcasts at most one buy and
\* at most one sell transaction.
C22_SellsOnceAfterConfirmedBuy ==
    /\ [](script \in LifecycleScripts =>
            /\ Cardinality(RequestsOf("buy")) <= 1
            /\ Cardinality(RequestsOf("sell")) <= 1
            /\ Cardinality(Places(steps, "send")) <= 2
            /\ phase # "sell" => Cardinality(Places(steps, "send")) <= 1
            /\ \A j \in RequestsOf("sell") :
                  /\ phase = "sell"
                  /\ \E b \in RequestsOf("buy") :
                        /\ b < j
                        /\ requests[j].inputMint = requests[b].outputMint
                        /\ requests[j].inputMint = outputMint
                  /\ \E k \in DOMAIN steps :
                        /\ k >= 4
                        /\ SubSeq(steps, k - 3, k) = <<"send", "sent", "confirmed", "orderRequest">>
                        /\ Places(steps, "send") \cap (1..(k - 4)) = {}
                        /\ Cardinality(Places(steps, "send") \cap (k..Len(steps))) <= 1)
    /\ [][(script \in LifecycleScripts /\ RequestsOf("sell")' # RequestsOf("sell")) =>
             /\ phase = "buy"
             /\ signature \in Signatures
             /\ confirmation \in Confirmations
             /\ thrown = NoError]_vars

\* The buy was broadcast and confirmed, and the sell transaction of the mint
\* bought has been broadcast and confirmed as well.
C22_Witness ==
    /\ script \in LifecycleScripts
    /\ phase = "sell"
    /\ Cardinality(RequestsOf("sell")) = 1
    /\ Cardinality(Places(steps, "confirmed")) = 2
    /\ pc = "exited"

----------------------------------------------------------------------------
(* Properties of the scan *)

\* The events that hold a market whose volume is greater than 1,000,000, and
\* the first of them.
EventsOverThreshold ==
    {i \in DOMAIN events :
        \E j \in DOMAIN events[i].markets :
            VolumeOrZero(events[i].markets[j]) > 1000000}

StopEvent == CHOOSE i \in EventsOverThreshold : \A k \in EventsOverThreshold : i <= k

\* C23: the scan stops at the first event that holds a market with a volume
\* greater than 1,000,000; the market traded is the top active market of that
\* event, an active market of that event and of no other; one market at most
\* is examined in a run, whatever becomes of its trade; and when no market is
\* over the threshold no order is requested and nothing is signed or broadcast.
C23_ScanStopsAtFirstOverThreshold ==
    /\ [](script \in LifecycleScripts =>
            /\ Cardinality(Places(steps, "orderbookRequest")) <= 1
            /\ topMarket # JNull =>
                  /\ EventsOverThreshold # {}
                  /\ topMarket.status = "active"
                  /\ \E j \in DOMAIN events[StopEvent].markets :
                        events[StopEvent].markets[j] = topMarket
                  /\ IsFirstTopActive(events[StopEvent].markets, topMarket)
            /\ EventsOverThreshold = {} =>
                  /\ topMarket = JNull
                  /\ requests = <<>>
                  /\ Places(steps, "orderbookRequest") = {}
                  /\ ~signedTx.signed
                  /\ signature = Undefined
                  /\ thrown = NoError /\ pc = "exited" =>
                        /\ exitCode = 0
                        /\ console # <<>>
                        /\ Last(console).text =
                               "No market with volume > 1m found in this batch.")
    /\ [][(script \in LifecycleScripts /\ topMarket # JNull) =>
             /\ topMarket' = topMarket
             /\ events' = events]_vars

\* The first market over the threshold is a finalized market of the first
\* event; the market traded is the active market of that event, not the
\* larger active market of the second event, and the run has ended.
C23_Witness ==
    /\ script \in LifecycleScripts
    /\ Len(events) = 2
    /\ EventsOverThreshold = {1, 2}
    /\ StopEvent = 1
    /\ topMarket = MarketLow
    /\ \E j \in DOMAIN events[1].markets : events[1].markets[j].status # "active"
    /\ pc = "exited"

----------------------------------------------------------------------------
(* Properties of a one-sided and of an empty orderbook *)

\* The probe order is asked for with the mint of the given side of the market
\* traded, or no order at all when the market has no such mint.
BuysSide(side) ==
    LET mint == getOutcomeMintForMarket(topMarket, side, SETTLEMENT_MINT)
    IN  /\ SideOf(orderbook) = side
        /\ IF mint \in {Undefined, ""} THEN requests = <<>>
           ELSE /\ requests # <<>>
                /\ requests[1].kind = "probe"
                /\ requests[1].outputMint = mint
                /\ outputMint = mint

\* C24: with a positive finite bid on one side of the orderbook only, that
\* side is bought; with none on either side (the orderbook request failed or
\* was answered without a body or without bids) the buy step ends: no order
\* is requested, nothing is signed, nothing is broadcast.
C24_OneSidedAndEmptyOrderbook ==
    script \in LifecycleScripts =>
        /\ (PositiveBids("yes_bids") # {} /\ PositiveBids("no_bids") = {}) => BuysSide("yes")
        /\ (PositiveBids("yes_bids") = {} /\ PositiveBids("no_bids") # {}) => BuysSide("no")
        /\ (PositiveBids("yes_bids") = {} /\ PositiveBids("no_bids") = {}) =>
              /\ requests = <<>>
              /\ phase = "scan"
              /\ outputMint = Undefined
              /\ ~signedTx.signed
              /\ signature = Undefined
              /\ Places(steps, "send") = {}
              /\ (\E i \in DOMAIN received : received[i].call = "orderbook") =>
                    pc \in {"rejected", "exited"}

\* The orderbook has bids on the YES side only and the YES mint is asked for.
C24_Witness ==
    /\ script \in LifecycleScripts
    /\ PositiveBids("yes_bids") # {}
    /\ PositiveBids("no_bids") = {}
    /\ requests # <<>>
    /\ requests[1].outputMint = "yesHigh"

\* The orderbook request failed, and the run has ended without an order.
C24_WitnessFailedFetch ==
    /\ script \in LifecycleScripts
    /\ \E i \in DOMAIN received :
          /\ received[i].call = "orderbook"
          /\ received[i].response.type = "response"
          /\ ~received[i].response.ok
    /\ pc = "exited"
    /\ exitCode = 0
    /\ requests = <<>>

----------------------------------------------------------------------------
(* Properties of the start of the monitor *)

\* The submit answer names the order: it has an orderAddress and a programId.
HasOrderIdentity ==
    /\ submitIntentData.t # "null"
    /\ Get(submitIntentData, "orderAddress") \notin {Undefined, ""}
    /\ Get(submitIntentData, "programId") \notin {Undefined, ""}

\* C25 (as the specification states it): the declarative trade calls the
\* monitor only when the submit answer carries both an orderAddress and a
\* programId; when either is missing the run stops after the submission, the
\* monitor is not called and no order outcome is reported.
C25_MonitorOnlyWithOrderIdentity ==
    (script \in DeclarativeScripts /\ "submitOk" \in Range(steps) /\ ~HasOrderIdentity) =>
        /\ "monitorCall" \notin Range(steps)
        /\ \A i \in DOMAIN console : ~IsOrderLine(console[i])

----------------------------------------------------------------------------
(* Properties of the outcome mint *)

\* The side the buy step takes for the orderbook held.
SideTaken ==
    IF BothSidesBid THEN CheaperSide
    ELSE IF PositiveBids("yes_bids") # {} THEN "yes" ELSE "no"

\* The accounts of the market traded that are keyed by the settlement mint.
SettlementAccounts ==
    {i \in DOMAIN topMarket.accounts : topMarket.accounts[i].key = SETTLEMENT_MINT}

\* The mint the claim names: of the account keyed by the settlement mint when
\* the market has one, else of its first account; Undefined when the market
\* has no account or the account has no mint of the side.
ExpectedMint ==
    LET accounts == topMarket.accounts
        account == IF SettlementAccounts # {}
                   THEN accounts[CHOOSE i \in SettlementAccounts : TRUE]
                   ELSE accounts[1]
    IN  IF accounts = <<>> THEN Undefined
        ELSE IF SideTaken = "yes" THEN account.yesMint ELSE account.noMint

\* The buy step has chosen a side: a market is traded and its orderbook has a
\* positive bid.
SideChosen ==
    /\ script \in LifecycleScripts
    /\ topMarket # JNull
    /\ PositiveBids("yes_bids") # {} \/ PositiveBids("no_bids") # {}

\* C26: the outcome mint is the mint, for the side taken, of the market's
\* account keyed by the settlement mint, or of its first account when it has
\* no such account; without an account, or without a mint of that side in the
\* account, no order is requested; so every probe and buy request has that
\* mint as its output mint.
C26_OutcomeMintOfChosenAccount ==
    /\ SideChosen =>
          IF ExpectedMint \in {Undefined, ""}
          THEN /\ requests = <<>>
               /\ outputMint = Undefined
               /\ ~signedTx.signed
               /\ pc = "exited"
               /\ Last(console).text = "No outcome mint found for market."
          ELSE /\ outputMint = ExpectedMint
               /\ requests # <<>>
               /\ \A j \in RequestsOf("probe") \cup RequestsOf("buy") :
                     requests[j].outputMint = ExpectedMint
    /\ (script \in LifecycleScripts /\ requests # <<>>) => SideChosen

\* The market has an account of another mint first and one of the settlement
\* mint second: the mint of the second is asked for.
C26_Witness ==
    /\ SideChosen
    /\ topMarket = MarketHigh
    /\ topMarket.accounts[1].key # SETTLEMENT_MINT
    /\ RequestsOf("buy") # {}
    /\ requests[1].outputMint \in {"yesHigh", "noHigh"}

\* The account of the settlement mint has no mint of the side taken, the first
\* account has one: no order is requested.
C26_WitnessNoMint ==
    /\ SideChosen
    /\ topMarket = MarketPartial
    /\ SideTaken = "no"
    /\ requests = <<>>
    /\ pc = "exited"

\* The market has no account of the settlement mint: the mint of its first
\* account is asked for.
C26_WitnessFallback ==
    /\ SideChosen
    /\ topMarket = MarketLow
    /\ requests # <<>>
    /\ requests[1].outputMint = "yesLow"

====
